---- MODULE Spec2Model ----
(***************************************************************************)
(* Model of thruster's SSLServer (src/thruster/src/server/ssl_server.rs):  *)
(* the configuration and start-up of the server (cert, cert_pass, build),  *)
(* the accept loop that spawns one task per accepted stream, and the       *)
(* per-connection function process: TLS handshake, then the loop           *)
(* decode -> resolve route -> execute -> write.                            *)
(***************************************************************************)
EXTENDS Naturals, Sequences, FiniteSets, Bags

\* ---- bounds of the model ----
MaxConns == 2
MaxUnits == 2
MaxAcceptErrs == 1

Conns == 1..MaxConns

\* ---- credential material ----
Passphrases == {"", "pw"}
NoCert == [fmt |-> "none", pass |-> "", usable |-> FALSE]
Bundles == {[fmt |-> "garbage", pass |-> "", usable |-> FALSE],
            [fmt |-> "p12", pass |-> "pw", usable |-> TRUE],
            [fmt |-> "p12", pass |-> "pw", usable |-> FALSE]}

\* Identity::from_pkcs12(&cert, cert_pass) succeeds
DecryptsWith(c, p) == c.fmt = "p12" /\ c.pass = p
\* native_tls::TlsAcceptor::builder(cert).build() succeeds
AcceptorBuilds(c) == c.usable

\* ---- requests, route tokens, responses ----
Methods == {"GET"}
Paths == {"/health", "/missing"}
Requests == [method : Methods, path : Paths]
NoReq == [method |-> "-", path |-> "-"]
NoToken == "-"
NoResp == [status |-> 0, body |-> "-"]

\* one item of the framed stream: Ok(request) or Err(e)
Units == {[ok |-> TRUE, req |-> r] : r \in Requests} \cup {[ok |-> FALSE, req |-> NoReq]}

\* Dispatcher: resolve_route(method, path) -> route_token
Route(m, p) == IF p = "/health" THEN "r_health" ELSE "r_none"
\* Dispatcher: the response execute(request, route_token) produces when it succeeds
Respond(r, t) == [status |-> IF t = "r_none" THEN 404 ELSE 200, body |-> r.path]

VARIABLES cert, cert_pass, phase, panic, bindCalls, accepts, conn, log

vars == <<cert, cert_pass, phase, panic, bindCalls, accepts, conn, log>>

srvVars == <<cert, cert_pass, phase, panic, bindCalls, accepts>>

\* a connection that has not been accepted yet
NoConn == [pc |-> "none", result |-> "none",
           request |-> NoReq, matched |-> NoToken, response |-> NoResp,
           sent |-> <<>>, rd |-> 0, peerClosed |-> FALSE,
           decoded |-> <<>>, resolved |-> <<>>, executed |-> <<>>, wire |-> <<>>]

RECURSIVE Count(_, _)
Count(s, v) == IF s = <<>> THEN 0
               ELSE (IF s[1] = v THEN 1 ELSE 0) + Count(Tail(s), v)

\* the state of the Connection Processor of section 4.3
State(c) == CASE conn[c].pc = "none" -> "NotAccepted"
              [] conn[c].pc = "handshake" -> "Handshaking"
              [] conn[c].pc = "closed" -> "Closed"
              [] OTHER -> "Serving"

\* SSLServer::new
Init ==
    /\ cert = NoCert
    /\ cert_pass = ""
    /\ phase = "new"
    /\ panic = "none"
    /\ bindCalls = 0
    /\ accepts = <<>>
    /\ conn = [c \in Conns |-> NoConn]
    /\ log = EmptyBag

\* SSLServer::cert
SetCert(b) ==
    /\ phase = "new"
    /\ cert' = b
    /\ UNCHANGED <<cert_pass, phase, panic, bindCalls, accepts, conn, log>>

\* SSLServer::cert_pass
SetCertPass(p) ==
    /\ phase = "new"
    /\ cert_pass' = p
    /\ UNCHANGED <<cert, phase, panic, bindCalls, accepts, conn, log>>

\* variant: the result of from_pkcs12 is not checked
BuildOutcomeNoDecrypt(resolves) ==
    IF cert = NoCert THEN "no_cert"
    ELSE IF ~resolves THEN "addr"
    ELSE IF ~AcceptorBuilds(cert) THEN "acceptor"
    ELSE "none"

\* variant: the bundle is decrypted with the default passphrase, not cert_pass
BuildOutcomeDefaultPass(resolves) ==
    IF cert = NoCert THEN "no_cert"
    ELSE IF ~resolves THEN "addr"
    ELSE IF ~DecryptsWith(cert, "") THEN "decrypt"
    ELSE IF ~AcceptorBuilds(cert) THEN "acceptor"
    ELSE "none"

\* the outcome of the synchronous part of build
BuildOutcome(resolves) ==
    IF cert = NoCert THEN "no_cert"
    ELSE IF ~resolves THEN "addr"
    ELSE IF ~DecryptsWith(cert, cert_pass) THEN "decrypt"
    ELSE IF ~AcceptorBuilds(cert) THEN "acceptor"
    ELSE "none"

\* variant: build binds the listener itself instead of returning a lazy future
BuildBindsEagerly(resolves) ==
    /\ phase = "new"
    /\ panic' = BuildOutcome(resolves)
    /\ phase' = IF BuildOutcome(resolves) = "none" THEN "listening" ELSE "panicked"
    /\ bindCalls' = IF BuildOutcome(resolves) = "none" THEN bindCalls + 1 ELSE bindCalls
    /\ UNCHANGED <<cert, cert_pass, accepts, conn, log>>

\* SSLServer::build up to the creation of listener_fut; nothing is bound yet
Build(resolves) ==
    /\ phase = "new"
    /\ panic' = BuildOutcome(resolves)
    /\ phase' = IF BuildOutcome(resolves) = "none" THEN "built" ELSE "panicked"
    /\ UNCHANGED <<cert, cert_pass, bindCalls, accepts, conn, log>>

\* the handle is driven: TcpListener::bind(addr) succeeds
BindOk ==
    /\ phase = "built"
    /\ bindCalls' = bindCalls + 1
    /\ phase' = "listening"
    /\ UNCHANGED <<cert, cert_pass, panic, accepts, conn, log>>

\* the handle is driven: TcpListener::bind(addr) fails, listener.unwrap() panics
BindErr ==
    /\ phase = "built"
    /\ bindCalls' = bindCalls + 1
    /\ phase' = "panicked"
    /\ panic' = "bind"
    /\ UNCHANGED <<cert, cert_pass, accepts, conn, log>>

\* the next connection to be accepted
NextConn == Count(accepts, "ok") + 1

\* variant: process is awaited in the accept loop instead of being spawned
AcceptBlocking ==
    /\ phase = "listening"
    /\ NextConn \in Conns
    /\ \A d \in Conns : conn[d].pc \in {"none", "closed"}
    /\ accepts' = Append(accepts, "ok")
    /\ conn' = [conn EXCEPT ![NextConn].pc = "handshake"]
    /\ UNCHANGED <<cert, cert_pass, phase, panic, bindCalls, log>>

\* for_each closure on Ok(stream): spawn process for it
Accept ==
    /\ phase = "listening"
    /\ NextConn \in Conns
    /\ accepts' = Append(accepts, "ok")
    /\ conn' = [conn EXCEPT ![NextConn].pc = "handshake"]
    /\ UNCHANGED <<cert, cert_pass, phase, panic, bindCalls, log>>

\* variant: the accept result is unwrapped, an Err ends the accept loop
AcceptErrStops ==
    /\ phase = "listening"
    /\ Count(accepts, "err") < MaxAcceptErrs
    /\ accepts' = Append(accepts, "err")
    /\ phase' = "panicked"
    /\ panic' = "accept"
    /\ UNCHANGED <<cert, cert_pass, bindCalls, conn, log>>

\* for_each closure on Err(_): nothing is done, the stream goes on
AcceptErr ==
    /\ phase = "listening"
    /\ Count(accepts, "err") < MaxAcceptErrs
    /\ accepts' = Append(accepts, "err")
    /\ UNCHANGED <<cert, cert_pass, phase, panic, bindCalls, conn, log>>

\* variant: dropping the future also aborts the tasks of the open connections
CancelAborts ==
    /\ phase \in {"built", "listening"}
    /\ phase' = "cancelled"
    /\ conn' = [c \in Conns |->
                   IF conn[c].pc \in {"none", "closed"} THEN conn[c]
                   ELSE [conn[c] EXCEPT !.pc = "closed", !.result = "aborted",
                                        !.request = NoReq, !.matched = NoToken,
                                        !.response = NoResp]]
    /\ UNCHANGED <<cert, cert_pass, panic, bindCalls, accepts, log>>

\* the future returned by build is dropped
Cancel ==
    /\ phase \in {"built", "listening"}
    /\ phase' = "cancelled"
    /\ UNCHANGED <<cert, cert_pass, panic, bindCalls, accepts, conn, log>>

\* ---- the peer of a connection ----
RECURSIVE UnitsSent(_)
UnitsSent(n) == IF n = 0 THEN 0 ELSE Len(conn[n].sent) + UnitsSent(n - 1)

\* the units the peer of c may send next: malformed bytes, or its next request;
\* consecutive requests of a peer differ (process never looks into a request,
\* so distinct requests are enough to tell the order of the replies)
Offered(c) ==
    {u \in Units : u.ok => u.req.path = (IF Len(conn[c].sent) % 2 = 0 THEN "/health"
                                                                      ELSE "/missing")}

\* units travel on the encrypted channel, which exists once the handshake is done
PeerSend(c, u) ==
    /\ conn[c].pc \in {"decode", "execute", "write"}
    /\ u \in Offered(c)
    /\ ~conn[c].peerClosed
    /\ UnitsSent(MaxConns) < MaxUnits
    /\ conn' = [conn EXCEPT ![c].sent = Append(@, u)]
    /\ UNCHANGED <<srvVars, log>>

PeerClose(c) ==
    /\ conn[c].pc \in {"decode", "execute", "write"}
    /\ ~conn[c].peerClosed
    /\ conn' = [conn EXCEPT ![c].peerClosed = TRUE]
    /\ UNCHANGED <<srvVars, log>>

\* ---- process ----
\* variant: the spawned task prints a line whatever process returns
ReturnLogsAlways(c, res) ==
    /\ conn' = [conn EXCEPT ![c].pc = "closed", ![c].result = res,
                            ![c].request = NoReq, ![c].matched = NoToken,
                            ![c].response = NoResp]
    /\ log' = log (+) SetToBag({[conn |-> c, err |-> res]})

\* process returns res to the spawned task, which prints a line for an Err
Return(c, res) ==
    /\ conn' = [conn EXCEPT ![c].pc = "closed", ![c].result = res,
                            ![c].request = NoReq, ![c].matched = NoToken,
                            ![c].response = NoResp]
    /\ log' = IF res = "ok" THEN log ELSE log (+) SetToBag({[conn |-> c, err |-> res]})

\* tls_acceptor.accept(socket).await is Ok
HandshakeOk(c) ==
    /\ conn[c].pc = "handshake"
    /\ conn' = [conn EXCEPT ![c].pc = "decode"]
    /\ UNCHANGED <<srvVars, log>>

\* variant: the handshake error is reported but the stream is served anyway
HandshakeErrServes(c) ==
    /\ conn[c].pc = "handshake"
    /\ conn' = [conn EXCEPT ![c].pc = "decode", ![c].result = "handshake"]
    /\ log' = log (+) SetToBag({[conn |-> c, err |-> "handshake"]})
    /\ UNCHANGED srvVars

\* tls_acceptor.accept(socket).await? returns the error
HandshakeErr(c) ==
    /\ conn[c].pc = "handshake"
    /\ Return(c, "handshake")
    /\ UNCHANGED srvVars

\* variant: connections are served one at a time, a request is read only when
\* the connections accepted earlier are finished
DecodeOkSerial(c) ==
    /\ conn[c].pc = "decode"
    /\ conn[c].rd < Len(conn[c].sent)
    /\ conn[c].sent[conn[c].rd + 1].ok
    /\ \A d \in 1..(c - 1) : conn[d].pc = "closed"
    /\ LET request == conn[c].sent[conn[c].rd + 1].req
           matched == Route(request.method, request.path)
       IN conn' = [conn EXCEPT ![c].pc = "execute",
                               ![c].rd = @ + 1,
                               ![c].request = request,
                               ![c].matched = matched,
                               ![c].decoded = Append(@, request),
                               ![c].resolved = Append(@, [req |-> request, token |-> matched])]
    /\ UNCHANGED <<srvVars, log>>

\* framed.next().await is Some(Ok(request)); the route is resolved from the
\* request's method and path before the task suspends in app.resolve
DecodeOk(c) ==
    /\ conn[c].pc = "decode"
    /\ conn[c].rd < Len(conn[c].sent)
    /\ conn[c].sent[conn[c].rd + 1].ok
    /\ LET request == conn[c].sent[conn[c].rd + 1].req
           matched == Route(request.method, request.path)
       IN conn' = [conn EXCEPT ![c].pc = "execute",
                               ![c].rd = @ + 1,
                               ![c].request = request,
                               ![c].matched = matched,
                               ![c].decoded = Append(@, request),
                               ![c].resolved = Append(@, [req |-> request, token |-> matched])]
    /\ UNCHANGED <<srvVars, log>>

\* variant: the decode error escapes the connection's task and stops the accept loop
DecodeErrEscapes(c) ==
    /\ conn[c].pc = "decode"
    /\ conn[c].rd < Len(conn[c].sent)
    /\ ~conn[c].sent[conn[c].rd + 1].ok
    /\ Return(c, "decode")
    /\ phase' = "panicked"
    /\ panic' = "decode"
    /\ UNCHANGED <<cert, cert_pass, bindCalls, accepts>>

\* framed.next().await is Some(Err(e))
DecodeErr(c) ==
    /\ conn[c].pc = "decode"
    /\ conn[c].rd < Len(conn[c].sent)
    /\ ~conn[c].sent[conn[c].rd + 1].ok
    /\ Return(c, "decode")
    /\ UNCHANGED srvVars

\* variant: end-of-stream is returned as an error
DecodeEofIsErr(c) ==
    /\ conn[c].pc = "decode"
    /\ conn[c].rd = Len(conn[c].sent)
    /\ conn[c].peerClosed
    /\ Return(c, "decode")
    /\ UNCHANGED srvVars

\* variant: end-of-stream is ignored and the stream is polled again
DecodeEofSpins(c) ==
    /\ conn[c].pc = "decode"
    /\ conn[c].rd = Len(conn[c].sent)
    /\ conn[c].peerClosed
    /\ UNCHANGED vars

\* framed.next().await is None
DecodeEof(c) ==
    /\ conn[c].pc = "decode"
    /\ conn[c].rd = Len(conn[c].sent)
    /\ conn[c].peerClosed
    /\ Return(c, "ok")
    /\ UNCHANGED srvVars

\* variant: execute is given the route resolved for the connection's first request
ExecuteOkStaleRoute(c) ==
    /\ conn[c].pc = "execute"
    /\ conn' = [conn EXCEPT ![c].pc = "write",
                            ![c].response = Respond(conn[c].request, conn[c].resolved[1].token),
                            ![c].executed = Append(@, [req |-> conn[c].request,
                                  token |-> conn[c].resolved[1].token, ok |-> TRUE,
                                  resp |-> Respond(conn[c].request, conn[c].resolved[1].token)]),
                            ![c].request = NoReq, ![c].matched = NoToken]
    /\ UNCHANGED <<srvVars, log>>

\* variant: the write of the response is not awaited before the next decode
ExecuteOkNoAwait(c) ==
    /\ conn[c].pc = "execute"
    /\ conn' = [conn EXCEPT ![c].pc = "decode",
                            ![c].response = Respond(conn[c].request, conn[c].matched),
                            ![c].executed = Append(@, [req |-> conn[c].request,
                                  token |-> conn[c].matched, ok |-> TRUE,
                                  resp |-> Respond(conn[c].request, conn[c].matched)]),
                            ![c].request = NoReq, ![c].matched = NoToken]
    /\ UNCHANGED <<srvVars, log>>

\* app.resolve(request, matched).await is Ok(response)
ExecuteOk(c) ==
    /\ conn[c].pc = "execute"
    /\ conn' = [conn EXCEPT ![c].pc = "write",
                            ![c].response = Respond(conn[c].request, conn[c].matched),
                            ![c].executed = Append(@, [req |-> conn[c].request,
                                  token |-> conn[c].matched, ok |-> TRUE,
                                  resp |-> Respond(conn[c].request, conn[c].matched)]),
                            ![c].request = NoReq, ![c].matched = NoToken]
    /\ UNCHANGED <<srvVars, log>>

\* variant: a failed execute is answered with an error response
ExecuteErrResponds(c) ==
    /\ conn[c].pc = "execute"
    /\ conn' = [conn EXCEPT ![c].pc = "write",
                            ![c].response = [status |-> 500, body |-> conn[c].request.path],
                            ![c].executed = Append(@, [req |-> conn[c].request,
                                  token |-> conn[c].matched, ok |-> FALSE,
                                  resp |-> NoResp]),
                            ![c].request = NoReq, ![c].matched = NoToken]
    /\ UNCHANGED <<srvVars, log>>

\* variant: a request whose execute fails is skipped and the loop goes on
ExecuteErrSkips(c) ==
    /\ conn[c].pc = "execute"
    /\ conn' = [conn EXCEPT ![c].pc = "decode",
                            ![c].executed = Append(@, [req |-> conn[c].request,
                                  token |-> conn[c].matched, ok |-> FALSE,
                                  resp |-> NoResp]),
                            ![c].request = NoReq, ![c].matched = NoToken,
                            ![c].response = NoResp]
    /\ log' = log (+) SetToBag({[conn |-> c, err |-> "dispatch"]})
    /\ UNCHANGED srvVars

\* app.resolve(request, matched).await? returns the error
ExecuteErr(c) ==
    /\ conn[c].pc = "execute"
    /\ conn' = [conn EXCEPT ![c].pc = "closed", ![c].result = "dispatch",
                            ![c].executed = Append(@, [req |-> conn[c].request,
                                  token |-> conn[c].matched, ok |-> FALSE,
                                  resp |-> NoResp]),
                            ![c].request = NoReq, ![c].matched = NoToken,
                            ![c].response = NoResp]
    /\ log' = log (+) SetToBag({[conn |-> c, err |-> "dispatch"]})
    /\ UNCHANGED srvVars

\* variant: process returns after the first response (one exchange per connection)
WriteOkCloses(c) ==
    /\ conn[c].pc = "write"
    /\ conn' = [conn EXCEPT ![c].pc = "closed", ![c].result = "ok",
                            ![c].wire = Append(@, conn[c].response),
                            ![c].response = NoResp]
    /\ UNCHANGED <<srvVars, log>>

\* variant: the response is put in front of the ones already written
WriteOkReorders(c) ==
    /\ conn[c].pc = "write"
    /\ conn' = [conn EXCEPT ![c].pc = "decode",
                            ![c].wire = <<conn[c].response>> \o @,
                            ![c].response = NoResp]
    /\ UNCHANGED <<srvVars, log>>

\* framed.send(response).await is Ok
WriteOk(c) ==
    /\ conn[c].pc = "write"
    /\ conn' = [conn EXCEPT ![c].pc = "decode",
                            ![c].wire = Append(@, conn[c].response),
                            ![c].response = NoResp]
    /\ UNCHANGED <<srvVars, log>>

\* variant: the write error is reported but the loop goes on
WriteErrGoesOn(c) ==
    /\ conn[c].pc = "write"
    /\ conn' = [conn EXCEPT ![c].pc = "decode", ![c].result = "write",
                            ![c].response = NoResp]
    /\ log' = log (+) SetToBag({[conn |-> c, err |-> "write"]})
    /\ UNCHANGED srvVars

\* framed.send(response).await? returns the error
WriteErr(c) ==
    /\ conn[c].pc = "write"
    /\ Return(c, "write")
    /\ UNCHANGED srvVars

Next ==
    \/ \E b \in Bundles : SetCert(b)
    \/ \E p \in Passphrases : SetCertPass(p)
    \/ \E r \in BOOLEAN : Build(r)
    \/ BindOk
    \/ BindErr
    \/ Accept
    \/ AcceptErr
    \/ Cancel
    \/ \E c \in Conns, u \in Units : PeerSend(c, u)
    \/ \E c \in Conns : PeerClose(c)
    \/ \E c \in Conns : HandshakeOk(c)
    \/ \E c \in Conns : HandshakeErr(c)
    \/ \E c \in Conns : DecodeOk(c)
    \/ \E c \in Conns : DecodeErr(c)
    \/ \E c \in Conns : DecodeEof(c)
    \/ \E c \in Conns : ExecuteOk(c)
    \/ \E c \in Conns : ExecuteErr(c)
    \/ \E c \in Conns : WriteOk(c)
    \/ \E c \in Conns : WriteErr(c)

Spec == Init /\ [][Next]_vars

\* the steps of the task spawned for connection c
Proc(c) ==
    \/ HandshakeOk(c)
    \/ HandshakeErr(c)
    \/ DecodeOk(c)
    \/ DecodeErr(c)
    \/ DecodeEof(c)
    \/ ExecuteOk(c)
    \/ ExecuteErr(c)
    \/ WriteOk(c)
    \/ WriteErr(c)

\* the connections whose task is scheduled fairly and whose handshake, Dispatcher
\* calls and writes complete; connection 1 may stall forever at any await
FairConns == Conns \ {1}

\* the steps that matter for the progress of the connections: a failed accept
\* only extends the history accepts, which no other step reads, and is left out
LiveNext ==
    \/ \E b \in Bundles : SetCert(b)
    \/ \E p \in Passphrases : SetCertPass(p)
    \/ \E r \in BOOLEAN : Build(r)
    \/ BindOk
    \/ BindErr
    \/ Accept
    \/ Cancel
    \/ \E c \in Conns, u \in Units : PeerSend(c, u)
    \/ \E c \in Conns : PeerClose(c)
    \/ \E c \in Conns : Proc(c)

FairSpec == Init /\ [][LiveNext]_vars /\ \A c \in FairConns : WF_vars(Proc(c))

\* ---- properties ----
\* the TLS handshake of connection c has succeeded
HandshakeDone(c) ==
    \/ conn[c].pc \in {"decode", "execute", "write"}
    \/ conn[c].pc = "closed" /\ conn[c].result # "handshake"

\* every unit the peer of c has sent is a well-formed request
WellFormed(c) == \A i \in 1..Len(conn[c].sent) : conn[c].sent[i].ok

\* the response the Dispatcher gives to request r
Reply(r) == Respond(r, Route(r.method, r.path))

\* the lines printed for connection c
LogLines(c) ==
    CopiesIn([conn |-> c, err |-> "handshake"], log)
    + CopiesIn([conn |-> c, err |-> "decode"], log)
    + CopiesIn([conn |-> c, err |-> "dispatch"], log)
    + CopiesIn([conn |-> c, err |-> "write"], log)

\* C1: within one connection request N+1 is neither decoded, route-resolved nor
\* executed before the response to request N has been written: at most one
\* request is in flight per connection.
Thm_C1 ==
    \A c \in Conns :
        /\ Len(conn[c].decoded) <= Len(conn[c].wire) + 1
        /\ Len(conn[c].resolved) <= Len(conn[c].wire) + 1
        /\ Len(conn[c].executed) <= Len(conn[c].wire) + 1

\* the peer pipelined two requests; the second one is dispatched, the first
\* response is on the wire
Wit_C1 ==
    \E c \in Conns :
        /\ Len(conn[c].wire) = 1
        /\ Len(conn[c].resolved) = 2
        /\ conn[c].pc = "execute"

\* C2 as stated: N well-formed requests over a connection whose handshake
\* succeeded get exactly N responses, the i-th replying to the i-th request.
Orig_C2 ==
    \A c \in Conns :
        (HandshakeDone(c) /\ WellFormed(c) /\ conn[c].pc = "closed")
            => /\ Len(conn[c].wire) = Len(conn[c].sent)
               /\ \A i \in 1..Len(conn[c].wire) : conn[c].wire[i] = Reply(conn[c].sent[i].req)

\* C2 amended: the responses written are the replies to a prefix of the
\* requests sent, in order, none written before its request is decoded; when
\* all N units are well-formed requests and process returns Ok (every execute
\* and write succeeded) exactly N responses have been written.
Thm_C2 ==
    \A c \in Conns :
        /\ Len(conn[c].wire) <= Len(conn[c].decoded)
        /\ Len(conn[c].decoded) <= Len(conn[c].sent)
        /\ \A i \in 1..Len(conn[c].decoded) : conn[c].decoded[i] = conn[c].sent[i].req
        /\ \A i \in 1..Len(conn[c].wire) : conn[c].wire[i] = Reply(conn[c].sent[i].req)
        /\ (WellFormed(c) /\ conn[c].result = "ok")
               => Len(conn[c].wire) = Len(conn[c].sent)

\* two different requests answered in order, connection ended without error
Wit_C2 ==
    \E c \in Conns :
        /\ conn[c].result = "ok"
        /\ Len(conn[c].sent) = 2
        /\ conn[c].sent[1] # conn[c].sent[2]
        /\ Len(conn[c].wire) = 2

\* C3: a connection whose handshake failed is Closed, came there directly from
\* Handshaking, and nothing was decoded, resolved, executed or written for it.
Thm_C3 ==
    /\ [](\A c \in Conns :
            conn[c].result = "handshake"
                => /\ State(c) = "Closed"
                   /\ conn[c].rd = 0
                   /\ conn[c].decoded = <<>>
                   /\ conn[c].resolved = <<>>
                   /\ conn[c].executed = <<>>
                   /\ conn[c].wire = <<>>)
    /\ [][\A c \in Conns :
            (conn[c].result # "handshake" /\ conn'[c].result = "handshake")
                => conn[c].pc = "handshake" /\ conn'[c].pc = "closed"]_vars

\* a handshake failed and was reported, beside a connection that is served
Wit_C3 ==
    \E c, d \in Conns :
        /\ conn[c].result = "handshake"
        /\ LogLines(c) = 1
        /\ Len(conn[d].wire) = 1

CleanEmptyClose(c) ==
    /\ HandshakeDone(c)
    /\ conn[c].sent = <<>>
    /\ conn[c].peerClosed

\* C5: a connection whose peer closes cleanly after the handshake, before any
\* request, can only go to Closed with Ok: no Dispatcher call, no log line.
Thm_C5 ==
    /\ [](\A c \in Conns :
            CleanEmptyClose(c)
                => /\ conn[c].pc \in {"decode", "closed"}
                   /\ conn[c].pc = "closed" => conn[c].result = "ok"
                   /\ conn[c].resolved = <<>>
                   /\ conn[c].executed = <<>>
                   /\ LogLines(c) = 0)
    /\ [][\A c \in Conns :
            (CleanEmptyClose(c) /\ conn'[c] # conn[c])
                => conn'[c].pc = "closed" /\ conn'[c].result = "ok"]_vars

Wit_C5 ==
    \E c \in Conns :
        /\ CleanEmptyClose(c)
        /\ State(c) = "Closed"
        /\ conn[c].result = "ok"

\* C6: a failed execute is the last thing done on its connection: the
\* connection is Closed, the failed request is the last one decoded, resolved
\* and executed, and only the earlier requests were answered.
Thm_C6 ==
    \A c \in Conns :
        \A i \in 1..Len(conn[c].executed) :
            ~conn[c].executed[i].ok
                => /\ i = Len(conn[c].executed)
                   /\ State(c) = "Closed"
                   /\ conn[c].result = "dispatch"
                   /\ conn[c].rd = i
                   /\ Len(conn[c].decoded) = i
                   /\ Len(conn[c].resolved) = i
                   /\ Len(conn[c].wire) = i - 1

\* execute failed while a further request of the peer was waiting to be read
Wit_C6 ==
    \E c \in Conns :
        /\ conn[c].result = "dispatch"
        /\ conn[c].rd < Len(conn[c].sent)
        /\ conn[c].sent[conn[c].rd + 1].ok

\* C7: a step that writes a response writes exactly the response the last
\* execute returned, and leaves the connection Serving, awaiting the next request.
Thm_C7 ==
    [][\A c \in Conns :
          Len(conn'[c].wire) > Len(conn[c].wire)
              => /\ conn[c].executed # <<>>
                 /\ conn[c].executed[Len(conn[c].executed)].ok
                 /\ conn'[c].wire =
                        Append(conn[c].wire, conn[c].executed[Len(conn[c].executed)].resp)
                 /\ conn'[c].pc = "decode"
                 /\ conn'[c].result = "none"]_vars

\* GET /health answered with 200, connection open and waiting
Wit_C7 ==
    \E c \in Conns :
        /\ conn[c].pc = "decode"
        /\ conn[c].wire = <<[status |-> 200, body |-> "/health"]>>
        /\ ~conn[c].peerClosed

\* the credential is configured, decodes with the passphrase, and yields an acceptor
CredentialOk ==
    /\ cert # NoCert
    /\ DecryptsWith(cert, cert_pass)
    /\ AcceptorBuilds(cert)

\* C8: when build is called without a usable credential it panics; no bind is
\* ever attempted, nothing is accepted and no process task is spawned.
Thm_C8 ==
    (phase # "new" /\ ~CredentialOk)
        => /\ phase = "panicked"
           /\ panic \in {"no_cert", "addr", "decrypt", "acceptor"}
           /\ bindCalls = 0
           /\ accepts = <<>>
           /\ \A c \in Conns : conn[c] = NoConn

\* a p12 bundle with the wrong passphrase
Wit_C8 ==
    /\ phase = "panicked"
    /\ panic = "decrypt"
    /\ cert.fmt = "p12"

\* C9 as stated: with a valid credential and passphrase (and an address that
\* resolves) start does not fail.
Orig_C9 ==
    (CredentialOk /\ panic # "addr") => phase # "panicked"

\* C9 amended: with a valid credential and passphrase build never fails on the
\* credential and binds nothing itself; the socket is bound, and the accept
\* loop runs, once the returned handle is driven and the bind succeeds; a
\* failed bind (or an address that does not resolve) panics.
Thm_C9 ==
    CredentialOk
        => /\ panic \in {"none", "addr", "bind"}
           /\ phase = "built" => bindCalls = 0
           /\ phase = "listening" => (bindCalls = 1 /\ panic = "none")
           /\ (bindCalls = 1 /\ panic = "none") => phase \in {"listening", "cancelled"}
           /\ panic = "bind" => (bindCalls = 1 /\ accepts = <<>>)

Wit_C9 ==
    /\ CredentialOk
    /\ phase = "listening"
    /\ cert_pass = "pw"

\* connection c was accepted after a failed accept
AcceptedAfterErr(c) ==
    \E i, j \in 1..Len(accepts) :
        /\ i < j
        /\ accepts[i] = "err"
        /\ accepts[j] = "ok"
        /\ Count(SubSeq(accepts, 1, j), "ok") = c

\* the number of process tasks spawned so far
Spawned == Cardinality({c \in Conns : conn[c].pc # "none"})

\* C10: a failed accept leaves the accept loop running and spawns nothing; one
\* task has been spawned per successful accept.
Thm_C10 ==
    /\ [][(accepts' # accepts /\ accepts'[Len(accepts')] = "err")
             => /\ phase' = "listening"
                /\ panic' = "none"
                /\ conn' = conn
                /\ log' = log]_vars
    /\ [](/\ Spawned = Count(accepts, "ok")
          /\ Count(accepts, "err") > 0 => phase \in {"listening", "cancelled"})

\* a connection accepted after a failed accept got its response
Wit_C10 ==
    \E c \in Conns :
        /\ AcceptedAfterErr(c)
        /\ Len(conn[c].wire) = 1
        /\ phase = "listening"

\* the line an accept error would be logged with
AcceptErrLine == [conn |-> 0, err |-> "accept"]

\* C11: every failed accept is logged: there is one log line per error item
\* of the listener stream.
Orig_C11 ==
    CopiesIn(AcceptErrLine, log) = Count(accepts, "err")

\* C12: while the server is listening the accept step is enabled whatever the
\* connections are doing, and it does nothing but spawn the new connection's
\* processor in Handshaking: no other connection and no log line changes.
Thm_C12 ==
    /\ []((phase = "listening" /\ NextConn \in Conns) => ENABLED Accept)
    /\ [][Count(accepts', "ok") > Count(accepts, "ok")
             => /\ conn'[NextConn].pc = "handshake"
                /\ \A d \in Conns \ {NextConn} : conn'[d] = conn[d]
                /\ phase' = "listening"
                /\ log' = log]_vars

\* a connection was accepted while the earlier one still sits in its handshake
Wit_C12 ==
    /\ phase = "listening"
    /\ conn[1].pc = "handshake"
    /\ conn[2].pc = "handshake"

\* the processor of c can take its next step
CanStep(c) ==
    /\ conn[c].pc = "handshake" => (ENABLED HandshakeOk(c) /\ ENABLED HandshakeErr(c))
    /\ conn[c].pc = "execute" => (ENABLED ExecuteOk(c) /\ ENABLED ExecuteErr(c))
    /\ conn[c].pc = "write" => (ENABLED WriteOk(c) /\ ENABLED WriteErr(c))
    /\ (conn[c].pc = "decode" /\ conn[c].rd < Len(conn[c].sent))
           => (ENABLED DecodeOk(c) \/ ENABLED DecodeErr(c))
    /\ (conn[c].pc = "decode" /\ conn[c].rd = Len(conn[c].sent) /\ conn[c].peerClosed)
           => ENABLED DecodeEof(c)

\* C13: once the handle is cancelled nothing is accepted or spawned any more;
\* the cancel step itself changes no connection, and every connection that is
\* open keeps its next step enabled.
Thm_C13 ==
    /\ [](phase = "cancelled"
            => /\ ~ENABLED Accept
               /\ ~ENABLED AcceptErr
               /\ \A c \in Conns : CanStep(c))
    /\ [][phase = "cancelled" => (accepts' = accepts /\ Spawned' = Spawned)]_vars
    /\ [][(phase # "cancelled" /\ phase' = "cancelled") => conn' = conn]_vars

\* cancelled with one connection in its handshake and one in an exchange
Wit_C13 ==
    /\ phase = "cancelled"
    /\ \E c, d \in Conns : conn[c].pc = "handshake" /\ conn[d].pc = "write"

\* a request received on c has not been answered yet, and c is not Closed
Owed(c) ==
    /\ State(c) # "Closed"
    /\ \E i \in 1..Len(conn[c].sent) : conn[c].sent[i].ok /\ Len(conn[c].wire) < i

\* C14: whatever connection 1 does, also when it stalls forever, every request
\* received on a fairly scheduled connection is eventually answered, unless
\* that connection is closed first (by an error of its own).
Thm_C14 ==
    \A c \in FairConns : Owed(c) ~> ~Owed(c)

\* connection 1 still in its handshake, another connection answered
Wit_C14 ==
    /\ conn[1].pc = "handshake"
    /\ \E c \in FairConns : Len(conn[c].wire) = 1 /\ ~Owed(c)

\* the peer of c has closed the stream or sent malformed bytes
Ending(c) ==
    \/ conn[c].peerClosed
    \/ \E i \in 1..Len(conn[c].sent) : ~conn[c].sent[i].ok

\* C19: a fairly scheduled connection whose handshake fails, or whose peer has
\* closed the stream or sent malformed bytes, eventually reaches Closed.
Thm_C19 ==
    \A c \in FairConns :
        /\ Ending(c) ~> (State(c) = "Closed")
        /\ (State(c) = "Handshaking") ~> (State(c) # "Handshaking")

\* closed by end-of-stream after an exchange
Wit_C19 ==
    \E c \in FairConns :
        /\ conn[c].peerClosed
        /\ State(c) = "Closed"
        /\ conn[c].result = "ok"
        /\ Len(conn[c].wire) = 1

\* C15: a connection closed by a decode error has dispatched nothing for the
\* failing unit and has not read past it; one closed by a write error has not
\* written the failing response; a Closed connection never changes again.
Thm_C15 ==
    /\ [](\A c \in Conns :
            /\ conn[c].result = "decode"
                   => /\ State(c) = "Closed"
                      /\ conn[c].rd < Len(conn[c].sent)
                      /\ ~conn[c].sent[conn[c].rd + 1].ok
                      /\ Len(conn[c].decoded) = conn[c].rd
                      /\ Len(conn[c].resolved) = conn[c].rd
                      /\ Len(conn[c].executed) = conn[c].rd
                      /\ Len(conn[c].wire) = conn[c].rd
            /\ conn[c].result = "write"
                   => /\ State(c) = "Closed"
                      /\ Len(conn[c].executed) = conn[c].rd
                      /\ Len(conn[c].wire) = conn[c].rd - 1)
    /\ [][\A c \in Conns : State(c) = "Closed" => conn'[c] = conn[c]]_vars

\* one connection closed by a write error, another by malformed bytes
Wit_C15 ==
    \E c, d \in Conns :
        /\ conn[c].result = "write"
        /\ conn[d].result = "decode"

\* the results of process that are errors
ErrResults == {"handshake", "decode", "dispatch", "write"}

\* C16: a connection has exactly one log line, naming its error, when process
\* returned an error for it, and none otherwise; the line is there only once
\* the connection is Closed; the log holds nothing else and the failure leaves
\* the server as it was.
Thm_C16 ==
    /\ \A c \in Conns :
          /\ LogLines(c) = IF conn[c].result \in ErrResults THEN 1 ELSE 0
          /\ conn[c].result \in ErrResults
                 => /\ CopiesIn([conn |-> c, err |-> conn[c].result], log) = 1
                    /\ State(c) = "Closed"
                    /\ panic = "none"
                    /\ phase \in {"listening", "cancelled"}
    /\ BagCardinality(log) = Cardinality({c \in Conns : conn[c].result \in ErrResults})

\* two connections failed in different ways, a line each
Wit_C16 ==
    \E c, d \in Conns :
        /\ conn[c].result = "handshake"
        /\ conn[d].result = "dispatch"
        /\ BagCardinality(log) = 2

\* C17: every decoded request has its route resolved once, from its own method
\* and path, before it is executed; execute is called at most once per request,
\* with that request and the token resolved for it.
Thm_C17 ==
    \A c \in Conns :
        /\ Len(conn[c].resolved) = Len(conn[c].decoded)
        /\ \A i \in 1..Len(conn[c].resolved) :
              /\ conn[c].resolved[i].req = conn[c].decoded[i]
              /\ conn[c].resolved[i].token =
                     Route(conn[c].decoded[i].method, conn[c].decoded[i].path)
        /\ Len(conn[c].executed) =
               Len(conn[c].resolved) - (IF conn[c].pc = "execute" THEN 1 ELSE 0)
        /\ \A i \in 1..Len(conn[c].executed) :
              /\ conn[c].executed[i].req = conn[c].resolved[i].req
              /\ conn[c].executed[i].token = conn[c].resolved[i].token
        /\ conn[c].pc = "execute"
               => /\ conn[c].request = conn[c].resolved[Len(conn[c].resolved)].req
                  /\ conn[c].matched = conn[c].resolved[Len(conn[c].resolved)].token

\* two requests with different routes executed on one connection
Wit_C17 ==
    \E c \in Conns :
        /\ Len(conn[c].executed) = 2
        /\ conn[c].executed[1].token # conn[c].executed[2].token

\* the number of execute calls on c that returned a response
OkExecs(c) == Cardinality({i \in 1..Len(conn[c].executed) : conn[c].executed[i].ok})

\* the number of responses written or being written on c
Responses(c) == Len(conn[c].wire) + (IF conn[c].pc = "write" THEN 1 ELSE 0)

\* C18 as stated: at every point the responses written or being written on a
\* connection are as many as the successful execute calls on it.
Orig_C18 ==
    \A c \in Conns : Responses(c) = OkExecs(c)

\* C18 amended: every response written is the one a successful execute
\* returned, nothing is written for a failed execute, and the responses written
\* or being written are as many as the successful execute calls, less the one
\* response whose write failed on a connection closed by a write error.
Thm_C18 ==
    \A c \in Conns :
        /\ \A i \in 1..Len(conn[c].wire) :
              /\ conn[c].executed[i].ok
              /\ conn[c].wire[i] = conn[c].executed[i].resp
        /\ Responses(c) + (IF conn[c].result = "write" THEN 1 ELSE 0) = OkExecs(c)
        /\ conn[c].result = "dispatch" => Len(conn[c].wire) = Len(conn[c].executed) - 1

\* an answered request followed by one whose execute failed
Wit_C18 ==
    \E c \in Conns :
        /\ conn[c].result = "dispatch"
        /\ Len(conn[c].executed) = 2
        /\ Len(conn[c].wire) = 1

\* C20: build binds nothing: no bind is attempted before the returned handle is
\* driven, a handle cancelled without being driven leaves no bind, no accept
\* and no connection, and a bind failure only follows a driven handle whose
\* credential checks passed.
Thm_C20 ==
    /\ []((bindCalls = 0 \/ phase = "built")
            => /\ bindCalls = 0
               /\ accepts = <<>>
               /\ \A c \in Conns : conn[c] = NoConn)
    /\ [](panic = "bind" => (bindCalls = 1 /\ CredentialOk /\ phase = "panicked"))
    /\ [][phase = "new" => (bindCalls' = 0 /\ phase' \in {"new", "built", "panicked"})]_vars
    /\ [][bindCalls' # bindCalls => phase = "built"]_vars

\* the handle was cancelled without ever being driven
Wit_C20 ==
    /\ phase = "cancelled"
    /\ bindCalls = 0
    /\ CredentialOk

====
